---- MODULE Spec2Model ----
(***************************************************************************)
(* A model of principled_material_layers/material_layer.py: the layer      *)
(* slots of one layer stack (MaterialLayer), the by-identifier references  *)
(* between them (MaterialLayerRef), and the operations that initialize,    *)
(* rename, delete and convert layers and keep a layer's channel list and   *)
(* the outputs of its node tree in step.                                   *)
(*                                                                         *)
(* Every operation of the source is an operator from the stack's layer     *)
(* collection to an outcome [layers, raised, ret]: the collection after    *)
(* the call, whether the call ended in an exception (the collection is     *)
(* then what the call had written up to the raise), and what it returned.  *)
(* Fields of MaterialLayer no operation modelled here reads (enabled,      *)
(* opacity, is_baked, node_mask, preview_material, the node tree's name)   *)
(* are left out.                                                           *)
(***************************************************************************)
EXTENDS Integers, Sequences, FiniteSets, TLC

\* ------------------------------------------------------------------ bounds

\* Layer slots in the stack's collection.
NumSlots == 3

\* Node trees, of TreeTable, that replace_node_tree is given.
NumInputTrees == 4

\* Slots the image pool is exercised on.
NumImageSlots == 2

\* Slots the hierarchy is built on.
NumLifeSlots == 2

Slots == 1..NumSlots

IdTable == <<"aaaa", "bbbb", "cccc", "dddd", "eeee", "ffff">>

\* Tokens unique_name_in can draw: always one more than there are slots.
Ids == {IdTable[i] : i \in 1..(NumSlots + 1)}

ImageTable == <<"img1", "img2", "img3", "img4", "img5">>

Images == {ImageTable[i] : i \in 1..NumSlots}

\* Names given to initialize and to the name property.
InputNames == {"Layer", "Layer.01", ""}

LAYER_TYPES == <<"MATERIAL_PAINT", "MATERIAL_FILL">>

_VALID_LAYER_TYPES == {LAYER_TYPES[i] : i \in 1..Len(LAYER_TYPES)}

\* layer_type arguments: the valid ones and one that is not.
InputLayerTypes == _VALID_LAYER_TYPES \cup {"MATERIAL_BAD"}

NoImage == "None"

NoTree == [exists |-> FALSE, outputs |-> <<>>]

EmptyTree == [exists |-> TRUE, outputs |-> <<>>]

\* ------------------------------------------------------------------- state

VARIABLES layers, base_slot, last, walking

vars == <<layers, base_slot, last, walking>>

\* A slot as the property declarations leave it: an uninitialized layer.
DefaultLayer ==
    [identifier |-> "",
     name |-> "Layer",
     layer_type |-> "MATERIAL_PAINT",
     channels |-> <<>>,
     active_channel_index |-> 0,
     node_tree |-> NoTree,
     image |-> NoImage,
     image_channel |-> -1,
     parent |-> "",
     children |-> <<>>]

is_initialized(L, l) == L[l].identifier # ""

\* MaterialLayer.__ne__: layers are compared by identifier.
layer_ne(L, x, l) == L[x].identifier # L[l].identifier

Outcome(L, raised, ret) == [layers |-> L, raised |-> raised, ret |-> ret]

\* ------------------------------------------------------------------- names

Digit(d) ==
    CASE d = 0 -> "0" [] d = 1 -> "1" [] d = 2 -> "2" [] d = 3 -> "3"
      [] d = 4 -> "4" [] d = 5 -> "5" [] d = 6 -> "6" [] d = 7 -> "7"
      [] d = 8 -> "8" [] d = 9 -> "9"

\* f"{n:02}": at least two digits, zero padded.
Format02(n) ==
    IF n < 100
    THEN Digit(n \div 10) \o Digit(n % 10)
    ELSE Digit(n \div 100) \o Digit((n \div 10) % 10) \o Digit(n % 10)

\* f"{basename}.{n:02}"
SuffixedName(basename, n) == basename \o "." \o Format02(n)

\* name in layers: a collection is searched by the name of every element,
\* initialized or not.
NameInLayers(L, name) == \E x \in DOMAIN L : L[x].name = name

RECURSIVE FirstFreeSuffix(_, _, _)
FirstFreeSuffix(L, basename, n) ==
    IF ~NameInLayers(L, SuffixedName(basename, n))
    THEN SuffixedName(basename, n)
    ELSE FirstFreeSuffix(L, basename, n + 1)

\* As HasSameName, with uninitialized layers counted too.
HasSameNameAnyLayer(L, l) ==
    \E x \in DOMAIN L : L[x].name = L[l].name /\ layer_ne(L, x, l)

\* A different, initialized layer with the same name.
HasSameName(L, l) ==
    \E x \in DOMAIN L : /\ L[x].name = L[l].name
                     /\ layer_ne(L, x, l)
                     /\ is_initialized(L, x)

\* As _get_unique_name, with the suffixes counted from 0.
_get_unique_name_from_zero(L, l) ==
    IF HasSameName(L, l)
    THEN FirstFreeSuffix(L, L[l].name, 0)
    ELSE L[l].name

_get_unique_name(L, l) ==
    IF HasSameName(L, l)
    THEN FirstFreeSuffix(L, L[l].name, 1)
    ELSE L[l].name

\* As _update_name, with the unique name never assigned.
_update_name_unassigned(L, l) == L

\* The update callback of the name property; assigning the name inside it
\* runs the callback again.
RECURSIVE _update_name(_, _)
_update_name(L, l) ==
    LET unique_name == _get_unique_name(L, l)
    IN  IF unique_name # L[l].name
        THEN _update_name([L EXCEPT ![l].name = unique_name], l)
        ELSE L

\* self.name = name
set_name(L, l, name) == _update_name([L EXCEPT ![l].name = name], l)

\* ---------------------------------------------------------------- channels

\* The socket types a channel can declare.
SocketTypes == {"COLOR", "FLOAT", "FLOAT_FACTOR", "VECTOR"}

\* Channel.socket_type_bl_enum: the type a node tree output reports for a
\* channel's socket type. A socket made from socket_type_bl_idname reports
\* the same type.
socket_type_bl_enum(socket_type) ==
    CASE socket_type = "COLOR" -> "RGBA"
      [] socket_type = "FLOAT" -> "VALUE"
      [] socket_type = "FLOAT_FACTOR" -> "VALUE"
      [] socket_type = "VECTOR" -> "VECTOR"

Channel(name, socket_type, enabled) ==
    [name |-> name, socket_type |-> socket_type, enabled |-> enabled]

Socket(name, type) == [name |-> name, type |-> type]

\* layer_stack.channels: the stack's channel registry, searched by name.
StackChannels ==
    <<Channel("Color", "COLOR", TRUE), Channel("Rough", "FLOAT_FACTOR", FALSE)>>

\* Channels given to add_channel: the registry's, one the registry does not
\* know, and one that shares a registry name under another type and is not
\* enabled as the registry's is.
InputChannels ==
    {StackChannels[i] : i \in 1..Len(StackChannels)}
        \cup {Channel("Mask", "FLOAT", TRUE), Channel("Color", "VECTOR", FALSE)}

ChannelNames == {c.name : c \in InputChannels}

\* Node trees given to replace_node_tree, by their outputs: empty, matching,
\* wrongly typed and unknown to the registry, with one name twice, and with
\* every name.
TreeTable ==
    <<<<>>,
      <<Socket("Color", "RGBA")>>,
      <<Socket("Color", "VALUE"), Socket("Mask", "VALUE")>>,
      <<Socket("Rough", "VALUE"), Socket("Rough", "RGBA")>>,
      <<Socket("Mask", "RGBA"), Socket("Rough", "VALUE"), Socket("Color", "VECTOR")>>>>

InputTrees == {TreeTable[i] : i \in 1..NumInputTrees}

\* collection.find(name): the first position with that name, 0 for -1.
find(seq, name) ==
    IF \E i \in 1..Len(seq) : seq[i].name = name
    THEN CHOOSE i \in 1..Len(seq) :
             /\ seq[i].name = name
             /\ \A j \in 1..(i - 1) : seq[j].name # name
    ELSE 0

\* collection.remove(index), at a 1-based position.
remove_at(seq, i) == SubSeq(seq, 1, i - 1) \o SubSeq(seq, i + 1, Len(seq))

in_stack_channels(name) == find(StackChannels, name) # 0

\* channel.init_from_channel: the added channel copies the given one.
init_from_channel(channel) ==
    Channel(channel.name, channel.socket_type, channel.enabled)

\* As _ensure_node_tree_output, with an existing output left as it is.
_ensure_node_tree_output_as_found(L, l, channel) ==
    LET tree == L[l].node_tree
        outputs == tree.outputs
        idx == find(outputs, channel.name)
        type == socket_type_bl_enum(channel.socket_type)
    IN  IF ~tree.exists
        THEN Outcome(L, TRUE, 0)
        ELSE IF idx # 0
        THEN Outcome(L, FALSE, 0)
        ELSE Outcome([L EXCEPT ![l].node_tree.outputs =
                                   Append(outputs, Socket(channel.name, type))],
                     FALSE, 0)

\* Raises AttributeError (self.node_tree.outputs) when the layer has no
\* node tree.
_ensure_node_tree_output(L, l, channel) ==
    LET tree == L[l].node_tree
        outputs == tree.outputs
        idx == find(outputs, channel.name)
        type == socket_type_bl_enum(channel.socket_type)
    IN  IF ~tree.exists
        THEN Outcome(L, TRUE, 0)
        ELSE IF idx # 0
        THEN Outcome([L EXCEPT ![l].node_tree.outputs[idx].type = type],
                     FALSE, 0)
        ELSE Outcome([L EXCEPT ![l].node_tree.outputs =
                                   Append(outputs, Socket(channel.name, type))],
                     FALSE, 0)

\* As add_channel, without the look for a channel of the same name.
add_channel_unchecked(L, l, channel) ==
    LET added == [L EXCEPT ![l].channels =
                               Append(@, init_from_channel(channel))]
        ensured == _ensure_node_tree_output(added, l, channel)
    IN  Outcome(ensured.layers, ensured.raised, Len(added[l].channels))

\* Returns the position of the channel in self.channels.
add_channel(L, l, channel) ==
    LET existing == find(L[l].channels, channel.name)
        added == [L EXCEPT ![l].channels =
                               Append(@, init_from_channel(channel))]
        ensured == _ensure_node_tree_output(added, l, channel)
    IN  IF existing # 0
        THEN Outcome(L, FALSE, existing)
        ELSE Outcome(ensured.layers, ensured.raised, Len(added[l].channels))

Max(a, b) == IF a > b THEN a ELSE b

Min(a, b) == IF a < b THEN a ELSE b

\* As remove_channel, with the node tree's output left in place.
remove_channel_keeps_output(L, l, channel_name) ==
    LET ch_idx == find(L[l].channels, channel_name)
        removed == [L EXCEPT ![l].channels = remove_at(@, ch_idx)]
        shifted == IF ch_idx - 1 < L[l].active_channel_index
                   THEN L[l].active_channel_index - 1
                   ELSE L[l].active_channel_index
        active_index == Max(Min(shifted, Len(removed[l].channels) - 1), 0)
    IN  IF ch_idx = 0
        THEN Outcome(L, TRUE, 0)
        ELSE IF ~L[l].node_tree.exists
        THEN Outcome(removed, TRUE, 0)
        ELSE Outcome([removed EXCEPT ![l].active_channel_index = active_index],
                     FALSE, 0)

\* Raises ValueError for an unknown name before it changes anything, and
\* AttributeError (self.node_tree.outputs), the channel already removed,
\* when the layer has no node tree.
remove_channel(L, l, channel_name) ==
    LET ch_idx == find(L[l].channels, channel_name)
        removed == [L EXCEPT ![l].channels = remove_at(@, ch_idx)]
        outputs == L[l].node_tree.outputs
        out_idx == find(outputs, channel_name)
        pruned == IF out_idx # 0
                  THEN [removed EXCEPT ![l].node_tree.outputs =
                                           remove_at(outputs, out_idx)]
                  ELSE removed
        \* ch_idx is 1-based here, active_channel_index 0-based as in the code
        shifted == IF ch_idx - 1 < L[l].active_channel_index
                   THEN L[l].active_channel_index - 1
                   ELSE L[l].active_channel_index
        active_index == Max(Min(shifted, Len(removed[l].channels) - 1), 0)
    IN  IF ch_idx = 0
        THEN Outcome(L, TRUE, 0)
        ELSE IF ~L[l].node_tree.exists
        THEN Outcome(removed, TRUE, 0)
        ELSE Outcome([pruned EXCEPT ![l].active_channel_index = active_index],
                     FALSE, 0)

\* remove_channel for each name of a list, up to the first that raises.
RECURSIVE remove_channels(_, _, _)
remove_channels(L, l, names) ==
    IF names = <<>>
    THEN Outcome(L, FALSE, 0)
    ELSE LET one == remove_channel(L, l, Head(names))
         IN  IF one.raised
             THEN one
             ELSE remove_channels(one.layers, l, Tail(names))

channel_names(L, l) == [i \in 1..Len(L[l].channels) |-> L[l].channels[i].name]

clear_channels(L, l) == remove_channels(L, l, channel_names(L, l))

\* The active_channel setter: raises ValueError for an unknown channel.
set_active_channel(L, l, channel) ==
    LET ch_idx == find(L[l].channels, channel.name)
    IN  IF ch_idx = 0
        THEN Outcome(L, TRUE, 0)
        ELSE Outcome([L EXCEPT ![l].active_channel_index = ch_idx - 1],
                     FALSE, 0)

\* ------------------------------------------------------------ node trees

\* Same as layer == layer.layer_stack.base_layer, by identifier; base_slot
\* is 0 when the stack's base layer is none of the slots modelled.
is_base_layer(L, l) ==
    base_slot \in Slots /\ L[l].identifier = L[base_slot].identifier

\* The names replace_node_tree matches the channels against.
node_output_names(L, l) ==
    {L[l].node_tree.outputs[i].name : i \in 1..Len(L[l].node_tree.outputs)}
        \cup (IF is_base_layer(L, l)
              THEN {StackChannels[i].name :
                        i \in {j \in 1..Len(StackChannels) :
                                   StackChannels[j].enabled}}
              ELSE {})

\* The orders in which a set can be iterated.
Orders(S) ==
    {s \in [1..Cardinality(S) -> S] :
         \A i, j \in 1..Cardinality(S) : i # j => s[i] # s[j]}

\* Add any channels that are on the node tree but not on the layer.
RECURSIVE add_missing_channels(_, _, _)
add_missing_channels(L, l, names) ==
    IF names = <<>>
    THEN Outcome(L, FALSE, 0)
    ELSE LET ch_name == Head(names)
             one == IF /\ find(L[l].channels, ch_name) = 0
                       /\ in_stack_channels(ch_name)
                    THEN add_channel(L, l,
                                     StackChannels[find(StackChannels, ch_name)])
                    ELSE Outcome(L, FALSE, 0)
         IN  IF one.raised
             THEN one
             ELSE add_missing_channels(one.layers, l, Tail(names))

Reversed(seq) == [i \in 1..Len(seq) |-> seq[Len(seq) + 1 - i]]

\* Ensure the node tree has all the channels of this layer, of the correct
\* type, and enable each as the stack's channel of that name is enabled.
RECURSIVE ensure_all_outputs(_, _, _)
ensure_all_outputs(L, l, i) ==
    IF i > Len(L[l].channels)
    THEN Outcome(L, FALSE, 0)
    ELSE LET ch == L[l].channels[i]
             one == _ensure_node_tree_output(L, l, ch)
             synced ==
                 IF in_stack_channels(ch.name)
                 THEN [one.layers EXCEPT ![l].channels[i].enabled =
                           StackChannels[find(StackChannels, ch.name)].enabled]
                 ELSE one.layers
         IN  IF one.raised
             THEN one
             ELSE ensure_all_outputs(synced, l, i + 1)

\* As replace_node_tree, without the removal of the channels that are not
\* found on the node tree.
replace_node_tree_keeps_channels(L, l, node_tree, update_channels, order) ==
    LET tree == IF node_tree.same THEN L[l].node_tree ELSE node_tree.tree
        replaced == [L EXCEPT ![l].node_tree = tree]
        added == add_missing_channels(replaced, l, order)
        updated == IF update_channels
                   THEN added
                   ELSE Outcome(replaced, FALSE, 0)
    IN  IF ~tree.exists
        THEN Outcome(replaced, FALSE, 0)
        ELSE IF updated.raised
        THEN updated
        ELSE ensure_all_outputs(updated.layers, l, 1)

\* node_tree is [same, tree]: the layer's own tree again, or another (or
\* None). order is the order the set of output names is iterated in.
replace_node_tree(L, l, node_tree, update_channels, order) ==
    LET tree == IF node_tree.same THEN L[l].node_tree ELSE node_tree.tree
        replaced == [L EXCEPT ![l].node_tree = tree]
        names == node_output_names(replaced, l)
        added == add_missing_channels(replaced, l, order)
        stale == SelectSeq(Reversed(channel_names(added.layers, l)),
                           LAMBDA n : n \notin names)
        removed == IF added.raised
                   THEN added
                   ELSE remove_channels(added.layers, l, stale)
        updated == IF update_channels
                   THEN removed
                   ELSE Outcome(replaced, FALSE, 0)
    IN  IF ~tree.exists
        THEN Outcome(replaced, FALSE, 0)
        ELSE IF updated.raised
        THEN updated
        ELSE ensure_all_outputs(updated.layers, l, 1)

\* --------------------------------------------------------------- image pool

has_image(L, l) == L[l].image # NoImage

uses_shared_image(L, l) == L[l].image # NoImage /\ L[l].image_channel >= 0

\* What the image pool may hand to layer l: a whole image no other layer
\* uses (channel -1), or a channel no other layer uses of an image no other
\* layer has whole.
can_allocate(L, l, image, image_channel) ==
    /\ image \in Images
    /\ image_channel \in -1..2
    /\ \A x \in DOMAIN L \ {l} :
           L[x].image = image =>
               /\ image_channel >= 0
               /\ L[x].image_channel >= 0
               /\ L[x].image_channel # image_channel

\* image_manager.allocate_image_to_layer
allocate_image_to_layer(L, l, image, image_channel) ==
    [L EXCEPT ![l].image = image, ![l].image_channel = image_channel]

\* image_manager.deallocate_layer_image
deallocate_layer_image(L, l) ==
    [L EXCEPT ![l].image = NoImage, ![l].image_channel = -1]

\* --------------------------------------------------------------- lifecycle

\* layer_stack.get_layer_by_id: the slot of the layer with that identifier,
\* 0 for None.
get_layer_by_id(L, identifier) ==
    IF \E x \in DOMAIN L : L[x].identifier = identifier
    THEN CHOOSE x \in DOMAIN L :
             /\ L[x].identifier = identifier
             /\ \A y \in DOMAIN L : L[y].identifier = identifier => x <= y
    ELSE 0

\* Whether MaterialLayerRef.resolve raises: the reference is empty.
resolve_raises(ref) == ref = ""

\* MaterialLayerRef.resolve of a reference that is set.
resolve(L, ref) == get_layer_by_id(L, ref)

\* unique_name_in(layer_stack.layers, 4, attr="identifier") may return any
\* token that is the identifier of no layer.
is_unique_identifier(L, identifier) ==
    identifier \in Ids /\ \A x \in DOMAIN L : L[x].identifier # identifier

\* add_channel for each channel of a list that is enabled, or for each one.
RECURSIVE add_channels(_, _, _, _)
add_channels(L, l, channels, enabled_channels_only) ==
    IF channels = <<>>
    THEN Outcome(L, FALSE, 0)
    ELSE LET ch == Head(channels)
             one == IF ch.enabled \/ ~enabled_channels_only
                    THEN add_channel(L, l, ch)
                    ELSE Outcome(L, FALSE, 0)
         IN  IF one.raised
             THEN one
             ELSE add_channels(one.layers, l, Tail(channels),
                               enabled_channels_only)

\* As initialize, without the check that the layer is not yet initialized.
initialize_unguarded(L, l, name, layer_type, channels, enabled_channels_only, identifier, image, image_channel) ==
    LET identified == [L EXCEPT ![l].identifier = identifier]
        named == set_name(identified, l, name)
        fresh == [named EXCEPT ![l].layer_type = layer_type,
                               ![l].active_channel_index = 0,
                               ![l].node_tree = EmptyTree]
        filled == add_channels(fresh, l, channels, enabled_channels_only)
    IN  IF layer_type \notin _VALID_LAYER_TYPES
        THEN Outcome(L, TRUE, 0)
        ELSE IF filled.raised
        THEN filled
        ELSE IF layer_type = "MATERIAL_PAINT"
        THEN Outcome(allocate_image_to_layer(filled.layers, l, image,
                                             image_channel), FALSE, 0)
        ELSE filled

\* As initialize, with the layer type checked after the identifier and the
\* name are assigned.
initialize_checks_late(L, l, name, layer_type, channels, enabled_channels_only, identifier, image, image_channel) ==
    LET identified == [L EXCEPT ![l].identifier = identifier]
        named == set_name(identified, l, name)
        fresh == [named EXCEPT ![l].layer_type = layer_type,
                               ![l].active_channel_index = 0,
                               ![l].node_tree = EmptyTree]
        filled == add_channels(fresh, l, channels, enabled_channels_only)
    IN  IF is_initialized(L, l)
        THEN Outcome(L, TRUE, 0)
        ELSE IF layer_type \notin _VALID_LAYER_TYPES
        THEN Outcome(named, TRUE, 0)
        ELSE IF filled.raised
        THEN filled
        ELSE IF layer_type = "MATERIAL_PAINT"
        THEN Outcome(allocate_image_to_layer(filled.layers, l, image,
                                             image_channel), FALSE, 0)
        ELSE filled

\* identifier is what unique_name_in returns and (image, image_channel) what
\* the image pool allocates, should the call get that far.
initialize(L, l, name, layer_type, channels, enabled_channels_only, identifier, image, image_channel) ==
    LET identified == [L EXCEPT ![l].identifier = identifier]
        named == set_name(identified, l, name)
        fresh == [named EXCEPT ![l].layer_type = layer_type,
                               ![l].active_channel_index = 0,
                               ![l].node_tree = EmptyTree]
        filled == add_channels(fresh, l, channels, enabled_channels_only)
    IN  IF is_initialized(L, l)
        THEN Outcome(L, TRUE, 0)
        ELSE IF layer_type \notin _VALID_LAYER_TYPES
        THEN Outcome(L, TRUE, 0)
        ELSE IF filled.raised
        THEN filled
        ELSE IF layer_type = "MATERIAL_PAINT"
        THEN Outcome(allocate_image_to_layer(filled.layers, l, image,
                                             image_channel), FALSE, 0)
        ELSE filled

RECURSIVE delete(_, _)
RECURSIVE delete_children(_, _, _)

\* As delete, with the references to the children left in place.
delete_keeps_children(L, l) ==
    LET cleared == [L EXCEPT ![l].identifier = "", ![l].parent = ""]
        released == IF has_image(cleared, l)
                    THEN deallocate_layer_image(cleared, l)
                    ELSE cleared
        orphaned == delete_children(released, l, 1)
        emptied == [orphaned.layers EXCEPT ![l].channels = <<>>,
                                           ![l].node_tree = NoTree]
    IN  IF ~is_initialized(L, l)
        THEN Outcome(L, FALSE, 0)
        ELSE IF orphaned.raised
        THEN orphaned
        ELSE Outcome(set_name(emptied, l, ""), FALSE, 0)

\* As delete, with the layer's image left with it.
delete_keeps_image(L, l) ==
    LET cleared == [L EXCEPT ![l].identifier = "", ![l].parent = ""]
        orphaned == delete_children(cleared, l, 1)
        emptied == [orphaned.layers EXCEPT ![l].children = <<>>,
                                           ![l].channels = <<>>,
                                           ![l].node_tree = NoTree]
    IN  IF ~is_initialized(L, l)
        THEN Outcome(L, FALSE, 0)
        ELSE IF orphaned.raised
        THEN orphaned
        ELSE Outcome(set_name(emptied, l, ""), FALSE, 0)

\* for child in self.children: child.resolve().delete()
\* Raises RuntimeError for an empty reference and AttributeError for one
\* that resolves to None.
delete_children(L, l, i) ==
    IF i > Len(L[l].children)
    THEN Outcome(L, FALSE, 0)
    ELSE LET ref == L[l].children[i]
             child == resolve(L, ref)
             one == delete(L, child)
         IN  IF resolve_raises(ref) \/ child = 0
             THEN Outcome(L, TRUE, 0)
             ELSE IF one.raised
             THEN one
             ELSE delete_children(one.layers, l, i + 1)

delete(L, l) ==
    LET cleared == [L EXCEPT ![l].identifier = "", ![l].parent = ""]
        released == IF has_image(cleared, l)
                    THEN deallocate_layer_image(cleared, l)
                    ELSE cleared
        orphaned == delete_children(released, l, 1)
        emptied == [orphaned.layers EXCEPT ![l].children = <<>>,
                                           ![l].channels = <<>>,
                                           ![l].node_tree = NoTree]
    IN  IF ~is_initialized(L, l)
        THEN Outcome(L, FALSE, 0)
        ELSE IF orphaned.raised
        THEN orphaned
        ELSE Outcome(set_name(emptied, l, ""), FALSE, 0)

\* The statements of delete, one after another: what the layers are after
\* each statement that changes them, with the layer whose delete the
\* statement is of and the field it releases.
Step(l, field, L) == [layer |-> l, field |-> field, layers |-> L]

Steps(steps, raised) == [steps |-> steps, raised |-> raised]

\* The layers after the steps taken from L.
after(L, steps) == IF steps = <<>> THEN L ELSE steps[Len(steps)].layers

RECURSIVE delete_steps(_, _)
RECURSIVE delete_children_steps(_, _, _)

\* As delete_steps, with the channels and the node tree of the layer
\* released before its children are deleted.
delete_steps_channels_first(L, l) ==
    LET cleared == [L EXCEPT ![l].identifier = ""]
        detached == [cleared EXCEPT ![l].parent = ""]
        released == deallocate_layer_image(detached, l)
        no_channels == [(IF has_image(detached, l) THEN released
                         ELSE detached) EXCEPT ![l].channels = <<>>]
        no_tree == [no_channels EXCEPT ![l].node_tree = NoTree]
        first == <<Step(l, "identifier", cleared), Step(l, "parent", detached)>>
                     \o (IF has_image(detached, l)
                         THEN <<Step(l, "image", released)>>
                         ELSE <<>>)
                     \o <<Step(l, "channels", no_channels),
                          Step(l, "node_tree", no_tree)>>
        orphaned == delete_children_steps(no_tree, l, 1)
        childless == [after(no_tree, orphaned.steps) EXCEPT ![l].children = <<>>]
        unnamed == set_name(childless, l, "")
    IN  IF ~is_initialized(L, l)
        THEN Steps(<<>>, FALSE)
        ELSE IF orphaned.raised
        THEN Steps(first \o orphaned.steps, TRUE)
        ELSE Steps(first \o orphaned.steps
                       \o <<Step(l, "children", childless),
                            Step(l, "name", unnamed)>>,
                   FALSE)

\* for child in self.children: child.resolve().delete(), statement by
\* statement.
delete_children_steps(L, l, i) ==
    IF i > Len(L[l].children)
    THEN Steps(<<>>, FALSE)
    ELSE LET ref == L[l].children[i]
             child == resolve(L, ref)
             one == delete_steps(L, child)
             rest == delete_children_steps(after(L, one.steps), l, i + 1)
         IN  IF resolve_raises(ref) \/ child = 0
             THEN Steps(<<>>, TRUE)
             ELSE IF one.raised
             THEN one
             ELSE Steps(one.steps \o rest.steps, rest.raised)

\* delete, statement by statement: the identifier, the parent reference,
\* the image, the children and their references, the channels, the node
\* tree and the name, in the order of the code.
delete_steps(L, l) ==
    LET cleared == [L EXCEPT ![l].identifier = ""]
        detached == [cleared EXCEPT ![l].parent = ""]
        released == deallocate_layer_image(detached, l)
        first == <<Step(l, "identifier", cleared), Step(l, "parent", detached)>>
                     \o (IF has_image(detached, l)
                         THEN <<Step(l, "image", released)>>
                         ELSE <<>>)
        orphaned == delete_children_steps(after(L, first), l, 1)
        childless == [after(after(L, first), orphaned.steps)
                          EXCEPT ![l].children = <<>>]
        no_channels == [childless EXCEPT ![l].channels = <<>>]
        no_tree == [no_channels EXCEPT ![l].node_tree = NoTree]
        unnamed == set_name(no_tree, l, "")
    IN  IF ~is_initialized(L, l)
        THEN Steps(<<>>, FALSE)
        ELSE IF orphaned.raised
        THEN Steps(first \o orphaned.steps, TRUE)
        ELSE Steps(first \o orphaned.steps
                       \o <<Step(l, "children", childless),
                            Step(l, "channels", no_channels),
                            Step(l, "node_tree", no_tree),
                            Step(l, "name", unnamed)>>,
                   FALSE)

\* As convert_to, without the return for a layer of the type already and
\* without the test that the layer has no image.
convert_to_unchecked(L, l, layer_type, image, image_channel) ==
    LET allocated == IF layer_type = "MATERIAL_PAINT"
                     THEN allocate_image_to_layer(L, l, image, image_channel)
                     ELSE L
    IN  IF layer_type \notin _VALID_LAYER_TYPES
        THEN Outcome(L, TRUE, 0)
        ELSE Outcome([allocated EXCEPT ![l].layer_type = layer_type],
                     FALSE, 0)

\* As convert_to, with the image released by a conversion from a paint layer.
convert_to_releases_image(L, l, layer_type, image, image_channel) ==
    LET allocated == IF layer_type = "MATERIAL_PAINT" /\ L[l].image = NoImage
                     THEN allocate_image_to_layer(L, l, image, image_channel)
                     ELSE deallocate_layer_image(L, l)
    IN  IF layer_type \notin _VALID_LAYER_TYPES
        THEN Outcome(L, TRUE, 0)
        ELSE IF layer_type = L[l].layer_type
        THEN Outcome(L, FALSE, 0)
        ELSE Outcome([allocated EXCEPT ![l].layer_type = layer_type],
                     FALSE, 0)

convert_to(L, l, layer_type, image, image_channel) ==
    LET allocated == IF layer_type = "MATERIAL_PAINT" /\ L[l].image = NoImage
                     THEN allocate_image_to_layer(L, l, image, image_channel)
                     ELSE L
    IN  IF layer_type \notin _VALID_LAYER_TYPES
        THEN Outcome(L, TRUE, 0)
        ELSE IF layer_type = L[l].layer_type
        THEN Outcome(L, FALSE, 0)
        ELSE Outcome([allocated EXCEPT ![l].layer_type = layer_type],
                     FALSE, 0)

\* --------------------------------------------------------------- hierarchy

RECURSIVE is_ancestor(_, _, _, _)
\* Whether layer a is reached from layer l by at most n parent links.
is_ancestor(L, a, l, n) ==
    /\ n > 0
    /\ L[l].parent # ""
    /\ LET p == resolve(L, L[l].parent)
       IN  p # 0 /\ (p = a \/ is_ancestor(L, a, p, n - 1))

\* The owning stack makes layer c a child of layer p: it sets c's parent
\* reference and adds a reference to c to p's children.
set_parent(L, c, p) ==
    [L EXCEPT ![c].parent = L[p].identifier,
              ![p].children = Append(@, L[c].identifier)]

\* for _ in range(100): the hops of get_top_level_layer and of
\* is_descendent_of.
MaxHops == 100

\* The value a query returns, or that it raised; the layers are as they were.
Returned(L, ret) == Outcome(L, FALSE, ret)

Raised(L) == Outcome(L, TRUE, 0)

RECURSIVE descendents(_, _)
RECURSIVE descendents_from(_, _, _)

\* As descendents_from, with each child put before its own descendents.
descendents_child_first(L, l, i) ==
    IF i > Len(L[l].children)
    THEN Returned(L, <<>>)
    ELSE LET ref == L[l].children[i]
             child_layer == resolve(L, ref)
             own == IF L[child_layer].children # <<>>
                    THEN descendents(L, child_layer)
                    ELSE Returned(L, <<>>)
             rest == descendents_from(L, l, i + 1)
         IN  IF resolve_raises(ref) \/ child_layer = 0
             THEN Raised(L)
             ELSE IF own.raised \/ rest.raised
             THEN Raised(L)
             ELSE Returned(L, <<child_layer>> \o own.ret \o rest.ret)

\* The loop of descendents from the i-th child on: the descendents of the
\* child, if it has children, then the child. Raises RuntimeError for an
\* empty reference and AttributeError for one that resolves to None.
descendents_from(L, l, i) ==
    IF i > Len(L[l].children)
    THEN Returned(L, <<>>)
    ELSE LET ref == L[l].children[i]
             child_layer == resolve(L, ref)
             own == IF L[child_layer].children # <<>>
                    THEN descendents(L, child_layer)
                    ELSE Returned(L, <<>>)
             rest == descendents_from(L, l, i + 1)
         IN  IF resolve_raises(ref) \/ child_layer = 0
             THEN Raised(L)
             ELSE IF own.raised \/ rest.raised
             THEN Raised(L)
             ELSE Returned(L, own.ret \o <<child_layer>> \o rest.ret)

descendents(L, l) == descendents_from(L, l, 1)

\* One parent link up from layer x, 0 for None: the layer the parent
\* reference resolves to, -1 where x has no parent, and x where x is None or
\* -1 already.
up(L, x) ==
    IF x <= 0
    THEN x
    ELSE IF L[x].parent = ""
    THEN -1
    ELSE resolve(L, L[x].parent)

RECURSIVE walk(_, _, _)
\* The layers n parent links pass from layer x on: x, up of x, and so on.
walk(L, x, n) ==
    IF n = 0
    THEN <<x>>
    ELSE IF n = 1
    THEN <<x, up(L, x)>>
    ELSE LET first == walk(L, x, n \div 2)
         IN  first \o Tail(walk(L, first[Len(first)], n - (n \div 2)))

\* The first of a set of steps of a walk.
first_step(steps) == CHOOSE h \in steps : \A k \in steps : h <= k

\* The steps of a walk at which the layer has no parent, or is None.
at_top(L, path) ==
    {h \in 1..Len(path) : path[h] <= 0 \/ L[path[h]].parent = ""}

\* As stack_depth, with the layer counted among its ancestors.
stack_depth_with_self(L, l) ==
    LET path == walk(L, l, Cardinality(DOMAIN L))
        h == first_step(at_top(L, path))
    IN  IF at_top(L, path) = {} \/ path[h] = 0
        THEN Raised(L)
        ELSE Returned(L, h)

\* As stack_depth, raising for a layer with more than MaxHops ancestors.
stack_depth_bounded(L, l) ==
    LET path == walk(L, l, MaxHops)
        h == first_step(at_top(L, path))
    IN  IF at_top(L, path) = {} \/ path[h] = 0
        THEN Raised(L)
        ELSE Returned(L, h - 1)

\* stack_depth is 0 without parent, 1 where the parent has none, and 2 more
\* than the stack_depth of the grandparent otherwise: the parent links
\* walked to a layer without parent. A reference that resolves to None
\* raises AttributeError, and a walk that meets no layer without parent
\* within as many links as the stack has layers is in a cycle and raises
\* RecursionError.
stack_depth(L, l) ==
    LET path == walk(L, l, Cardinality(DOMAIN L))
        h == first_step(at_top(L, path))
    IN  IF at_top(L, path) = {} \/ path[h] = 0
        THEN Raised(L)
        ELSE Returned(L, h - 1)

\* MaterialLayerRef.__eq__ with a layer: the reference is set and holds the
\* layer's identifier.
ref_eq(L, ref, other) == ref # "" /\ L[other].identifier = ref

\* The steps of a walk at which an iteration of is_descendent_of returns, or
\* raises AttributeError: the layer is None, has no parent, or has other as
\* its parent.
decided(L, path, other) ==
    {h \in 1..Len(path) :
         \/ path[h] <= 0
         \/ L[path[h]].parent = ""
         \/ ref_eq(L, L[path[h]].parent, other)}

\* As is_descendent_of, with the walk one iteration longer.
is_descendent_of_one_more(L, l, other) ==
    LET path == walk(L, l, MaxHops)
        h == first_step(decided(L, path, other))
    IN  IF decided(L, path, other) = {} \/ path[h] = 0
        THEN Raised(L)
        ELSE Returned(L, L[path[h]].parent # "")

\* is_descendent_of: the loop's layer is the layer itself in the first of
\* MaxHops iterations and one link further up in each next; RuntimeError
\* after the last.
is_descendent_of(L, l, other) ==
    LET path == walk(L, l, MaxHops - 1)
        h == first_step(decided(L, path, other))
    IN  IF decided(L, path, other) = {} \/ path[h] = 0
        THEN Raised(L)
        ELSE Returned(L, L[path[h]].parent # "")

\* get_top_level_layer: the loop's layer is the parent in the first of
\* MaxHops iterations; RuntimeError after the last, AttributeError for a
\* reference that resolves to None.
get_top_level_layer(L, l) ==
    LET path == walk(L, up(L, l), MaxHops - 1)
        h == first_step(at_top(L, path))
    IN  IF L[l].parent = ""
        THEN Returned(L, l)
        ELSE IF at_top(L, path) = {} \/ path[h] = 0
        THEN Raised(L)
        ELSE Returned(L, path[h])

\* Frames the interpreter lets stack_depth nest before it raises
\* RecursionError. The interpreter's own limit is larger; any limit above
\* MaxHops / 2 lets the walk pass MaxHops.
RecursionLimit == 60

\* A walk up the hierarchy, iteration by iteration: the query and the layer
\* it is called on (and the other layer given), the layer the walk is at
\* (0 for None), the parent references it has followed in its loop or its
\* recursion, and whether it is running, has returned ret, or has raised.
Walk(op, l, other, at, hops, status, ret) ==
    [op |-> op, layer |-> l, other |-> other, at |-> at, hops |-> hops,
     status |-> status, ret |-> ret]

NoWalk == Walk("none", 0, 0, 0, 0, "none", 0)

walk_returned(w, ret) == [w EXCEPT !.status = "returned", !.ret = ret]

walk_raised(w) == [w EXCEPT !.status = "raised"]

\* get_top_level_layer up to its loop.
get_top_level_layer_begin(L, l) ==
    IF L[l].parent = ""
    THEN Walk("get_top_level_layer", l, 0, l, 0, "returned", l)
    ELSE Walk("get_top_level_layer", l, 0, resolve(L, L[l].parent), 0,
              "running", 0)

\* As get_top_level_layer_step, for a loop without range(100).
get_top_level_layer_step_unbounded(L, w) ==
    IF w.at = 0
    THEN walk_raised(w)
    ELSE IF L[w.at].parent = ""
    THEN walk_returned(w, w.at)
    ELSE [w EXCEPT !.at = resolve(L, L[w.at].parent), !.hops = @ + 1]

\* One iteration of the loop of get_top_level_layer, or the raise after the
\* last. None.parent raises AttributeError.
get_top_level_layer_step(L, w) ==
    IF w.hops = MaxHops
    THEN walk_raised(w)
    ELSE IF w.at = 0
    THEN walk_raised(w)
    ELSE IF L[w.at].parent = ""
    THEN walk_returned(w, w.at)
    ELSE [w EXCEPT !.at = resolve(L, L[w.at].parent), !.hops = @ + 1]

\* is_descendent_of up to its loop.
is_descendent_of_begin(L, l, other) ==
    Walk("is_descendent_of", l, other, l, 0, "running", 0)

\* One iteration of the loop of is_descendent_of, or the raise after the
\* last.
is_descendent_of_step(L, w) ==
    IF w.hops = MaxHops
    THEN walk_raised(w)
    ELSE IF w.at = 0
    THEN walk_raised(w)
    ELSE IF L[w.at].parent = ""
    THEN walk_returned(w, FALSE)
    ELSE IF ref_eq(L, L[w.at].parent, w.other)
    THEN walk_returned(w, TRUE)
    ELSE [w EXCEPT !.at = resolve(L, L[w.at].parent), !.hops = @ + 1]

\* stack_depth as it is called.
stack_depth_begin(L, l) == Walk("stack_depth", l, 0, l, 0, "running", 0)

\* One frame of stack_depth: it returns, raises AttributeError on None, or
\* calls stack_depth of the grandparent, to whose result every frame adds 2;
\* the interpreter raises RecursionError instead of a call that would nest
\* deeper than it allows.
stack_depth_step(L, w) ==
    LET parent == resolve(L, L[w.at].parent)
        grandparent == resolve(L, L[parent].parent)
    IN  IF L[w.at].parent = ""
        THEN walk_returned(w, w.hops)
        ELSE IF parent = 0
        THEN walk_raised(w)
        ELSE IF L[parent].parent = ""
        THEN walk_returned(w, w.hops + 1)
        ELSE IF grandparent = 0
        THEN walk_raised(w)
        ELSE IF (w.hops \div 2) + 1 >= RecursionLimit
        THEN walk_raised(w)
        ELSE [w EXCEPT !.at = grandparent, !.hops = @ + 2]

\* The next iteration or frame of the walk.
walk_step(L, w) ==
    CASE w.op = "get_top_level_layer" -> get_top_level_layer_step(L, w)
      [] w.op = "is_descendent_of" -> is_descendent_of_step(L, w)
      [] w.op = "stack_depth" -> stack_depth_step(L, w)

\* MaterialLayerRef.set on the parent reference of layer l, with layer p or,
\* for p = 0, with None.
parent_set(L, l, p) ==
    [L EXCEPT ![l].parent = IF p = 0 THEN "" ELSE L[p].identifier]

\* As ref_resolve, raising for a reference that resolves to no layer.
ref_resolve_strict(L, ref) ==
    IF resolve_raises(ref) \/ resolve(L, ref) = 0
    THEN Raised(L)
    ELSE Returned(L, resolve(L, ref))

\* MaterialLayerRef.resolve: RuntimeError for an empty reference, else the
\* layer of the stack with the identifier, 0 for None.
ref_resolve(L, ref) ==
    IF resolve_raises(ref) THEN Raised(L) ELSE Returned(L, resolve(L, ref))

\* The top-level layers of the stack, in the stack's order.
top_level_layers(L) ==
    {x \in DOMAIN L : is_initialized(L, x) /\ L[x].parent = ""}

\* layer_stack.get_layer_above: the next top-level layer, 0 for None.
stack_get_layer_above(L, l) ==
    LET above == {x \in top_level_layers(L) : x > l}
    IN  IF above = {}
        THEN 0
        ELSE CHOOSE x \in above : \A y \in above : x <= y

\* layer_stack.get_layer_below: the previous top-level layer, 0 for None.
stack_get_layer_below(L, l) ==
    LET below == {x \in top_level_layers(L) : x < l}
    IN  IF below = {}
        THEN 0
        ELSE CHOOSE x \in below : \A y \in below : x >= y

\* get_layer_above of a layer with a parent calls the parent's children
\* collection, self.parent.resolve().children(): a collection is not
\* callable and the call raises TypeError (AttributeError where the parent
\* resolves to None), so the lines after it are never reached.
get_layer_above(L, l) ==
    IF ~is_initialized(L, l)
    THEN Raised(L)
    ELSE IF L[l].parent = ""
    THEN Returned(L, stack_get_layer_above(L, l))
    ELSE Raised(L)

\* get_layer_below: as get_layer_above.
get_layer_below(L, l) ==
    IF ~is_initialized(L, l)
    THEN Raised(L)
    ELSE IF L[l].parent = ""
    THEN Returned(L, stack_get_layer_below(L, l))
    ELSE Raised(L)

\* ----------------------------------------------------------------- actions

\* What the last call was: the operation, the slot it was called on, that
\* layer as it was before the call, an argument of the call (a name or a
\* layer type), whether the call raised and what it returned.
Call(op, l, arg, outcome) ==
    [op |-> op, layer |-> l, pre |-> layers[l], arg |-> arg,
     raised |-> outcome.raised, ret |-> outcome.ret]

NoCall ==
    [op |-> "none", layer |-> 0, pre |-> DefaultLayer, arg |-> "",
     raised |-> FALSE, ret |-> 0]

Done(op, l, arg, outcome) ==
    /\ layers' = outcome.layers
    /\ last' = Call(op, l, arg, outcome)
    /\ UNCHANGED <<base_slot, walking>>


\* Whether (image, image_channel) is what the image pool hands to layer l, if
\* asked: something it can allocate, and one fixed pair if it is not asked.
PoolChoice(needed, l, image, image_channel) ==
    IF needed
    THEN can_allocate(layers, l, image, image_channel)
    ELSE image = ImageTable[1] /\ image_channel = -1

Initialize(l, name, layer_type, channels, enabled_channels_only, identifier, image, image_channel) ==
    /\ is_initialized(layers, l) \/ is_unique_identifier(layers, identifier)
    /\ PoolChoice(~is_initialized(layers, l) /\ layer_type = "MATERIAL_PAINT",
                  l, image, image_channel)
    /\ Done("initialize", l, name,
            initialize(layers, l, name, layer_type, channels,
                       enabled_channels_only, identifier, image,
                       image_channel))

\* The name property of a live layer is assigned.
Rename(l, name) ==
    /\ is_initialized(layers, l)
    /\ Done("rename", l, name, Outcome(set_name(layers, l, name), FALSE, 0))

Delete(l) == Done("delete", l, "", delete(layers, l))

ConvertTo(l, layer_type, image, image_channel) ==
    /\ is_initialized(layers, l)
    /\ PoolChoice(/\ layer_type = "MATERIAL_PAINT"
                  /\ layers[l].layer_type # "MATERIAL_PAINT"
                  /\ layers[l].image = NoImage,
                  l, image, image_channel)
    /\ Done("convert_to", l, layer_type,
            convert_to(layers, l, layer_type, image, image_channel))

\* The stack puts the top-level, childless live layer c under live layer p.
SetParent(c, p) ==
    /\ c # p
    /\ is_initialized(layers, c)
    /\ is_initialized(layers, p)
    /\ layers[c].parent = ""
    /\ ~is_ancestor(layers, c, p, NumSlots)
    /\ \A i \in 1..Len(layers[p].children) :
           layers[p].children[i] # layers[c].identifier
    /\ Done("set_parent", c, "", Outcome(set_parent(layers, c, p), FALSE, 0))

AddChannel(l, channel) ==
    /\ is_initialized(layers, l)
    /\ Done("add_channel", l, channel.name, add_channel(layers, l, channel))

RemoveChannel(l, channel_name) ==
    /\ is_initialized(layers, l)
    /\ Done("remove_channel", l, channel_name,
            remove_channel(layers, l, channel_name))

ClearChannels(l) ==
    /\ is_initialized(layers, l)
    /\ Done("clear_channels", l, "", clear_channels(layers, l))

\* add_channel and, if it returns, remove_channel of the same name.
add_then_remove_channel(L, l, channel) ==
    LET added == add_channel(L, l, channel)
    IN  IF added.raised
        THEN added
        ELSE remove_channel(added.layers, l, channel.name)

AddThenRemoveChannel(l, channel) ==
    /\ is_initialized(layers, l)
    /\ Done("add_channel, remove_channel", l, channel.name,
            add_then_remove_channel(layers, l, channel))

SetActiveChannel(l, channel) ==
    /\ is_initialized(layers, l)
    /\ Done("active_channel", l, channel.name,
            set_active_channel(layers, l, channel))

\* The trees a layer can be given: its own again, None, or another one.
TreeArguments ==
    {[same |-> TRUE, tree |-> NoTree], [same |-> FALSE, tree |-> NoTree]}
        \cup {[same |-> FALSE, tree |-> [exists |-> TRUE, outputs |-> o]] :
                  o \in InputTrees}

ReplaceNodeTree(l, node_tree, update_channels) ==
    /\ is_initialized(layers, l)
    /\ LET tree == IF node_tree.same THEN layers[l].node_tree
                   ELSE node_tree.tree
           given == [layers EXCEPT ![l].node_tree = tree]
       IN  \E order \in IF update_channels /\ tree.exists
                        THEN Orders(node_output_names(given, l))
                        ELSE {<<>>} :
               Done("replace_node_tree", l,
                    IF update_channels THEN "update_channels" ELSE "",
                    replace_node_tree(layers, l, node_tree, update_channels,
                                      order))

\* ---------------------------------------------------------- specifications

Init ==
    /\ layers = [l \in Slots |-> DefaultLayer]
    /\ base_slot = 0
    /\ last = NoCall
    /\ walking = NoWalk

\* Names: fill layers without channels are initialized, renamed and deleted.
InitializeNamed(l, name) ==
    Initialize(l, name, "MATERIAL_FILL", <<>>, TRUE, IdTable[l], ImageTable[1], -1)

NextNames ==
    \E l \in Slots :
        \/ \E name \in InputNames : InitializeNamed(l, name)
        \/ \E name \in InputNames : Rename(l, name)
        \/ Delete(l)

SpecNames == Init /\ [][NextNames]_vars

NumLive == Cardinality({l \in Slots : is_initialized(layers, l)})

\* Reuse: layers named Layer are initialized two at a time, with any
\* identifier, and the older of the two is deleted before the next.
ReuseInitialize(l, identifier) ==
    /\ ~is_initialized(layers, l)
    /\ NumLive <= 1
    /\ Initialize(l, "Layer", "MATERIAL_FILL", <<>>, TRUE, identifier, ImageTable[1], -1)

ReuseDelete(l) ==
    /\ is_initialized(layers, l)
    /\ NumLive = 2
    /\ last.op = "initialize"
    /\ l # last.layer
    /\ Delete(l)

NextReuse ==
    \E l \in Slots :
        \/ \E identifier \in Ids : ReuseInitialize(l, identifier)
        \/ ReuseDelete(l)

SpecReuse == Init /\ [][NextReuse]_vars

\* Identifiers: fill layers are initialized, with any identifier the stack
\* can allocate, and deleted.
NextIds ==
    \E l \in Slots :
        \/ \E identifier \in Ids :
               Initialize(l, "Layer", "MATERIAL_FILL", <<>>, TRUE, identifier, ImageTable[1], -1)
        \/ Delete(l)

SpecIds == Init /\ [][NextIds]_vars

\* The name slot l's layer is initialized with where names are to stay out
\* of each other's way.
SlotName(l) == SuffixedName("Layer", l)

\* Images: layers of either type are initialized, converted and deleted,
\* the image pool allocating any image or image channel that is free.
ImageSlots == 1..NumImageSlots

NextImages ==
    \E l \in ImageSlots :
        \/ \E layer_type \in InputLayerTypes, i \in ImageSlots, image_channel \in -1..2 :
               Initialize(l, SlotName(l), layer_type, <<>>, TRUE, IdTable[l], ImageTable[i], image_channel)
        \/ \E layer_type \in InputLayerTypes, i \in ImageSlots, image_channel \in -1..2 :
               ConvertTo(l, layer_type, ImageTable[i], image_channel)
        \/ Delete(l)

SpecImages == Init /\ [][NextImages]_vars

\* Life: paint layers with channels and an image of their own, and fill
\* layers without, are initialized, put under one another and deleted.
LifeSlots == 1..NumLifeSlots

\* The image the pool hands to slot l's layer: one of its own to a paint
\* layer that is being initialized.
LifeImage(l, layer_type) ==
    IF ~is_initialized(layers, l) /\ layer_type = "MATERIAL_PAINT"
    THEN ImageTable[l]
    ELSE ImageTable[1]

\* The channels a layer of the type is initialized with.
LifeChannels(layer_type) ==
    IF layer_type = "MATERIAL_PAINT" THEN StackChannels ELSE <<>>

NextLife ==
    \E l \in LifeSlots :
        \/ \E layer_type \in _VALID_LAYER_TYPES :
               Initialize(l, SlotName(l), layer_type, LifeChannels(layer_type), TRUE, IdTable[l], LifeImage(l, layer_type), -1)
        \/ \E p \in LifeSlots : SetParent(l, p)
        \/ Delete(l)

SpecLife == Init /\ [][NextLife]_vars

\* Channels: on one layer of the stack, the stack's base layer or not,
\* channels are added, removed, cleared and selected and the node tree is
\* replaced; the layer is initialized with or without channels, and deleted.
ChannelSlots == {1}

InitChannels ==
    /\ layers = [l \in Slots |-> DefaultLayer]
    /\ base_slot \in {0} \cup ChannelSlots
    /\ last = NoCall
    /\ walking = NoWalk

NextChannels ==
    \E l \in ChannelSlots :
        \/ \E channels \in {<<>>, StackChannels}, enabled_channels_only \in BOOLEAN :
               Initialize(l, SlotName(l), "MATERIAL_FILL", channels, enabled_channels_only, IdTable[l], ImageTable[1], -1)
        \/ \E channel \in InputChannels : AddChannel(l, channel)
        \/ \E channel \in InputChannels : AddThenRemoveChannel(l, channel)
        \/ \E channel_name \in ChannelNames : RemoveChannel(l, channel_name)
        \/ ClearChannels(l)
        \/ \E channel \in InputChannels : SetActiveChannel(l, channel)
        \/ \E node_tree \in TreeArguments, update_channels \in BOOLEAN :
               ReplaceNodeTree(l, node_tree, update_channels)
        \/ Delete(l)

SpecChannels == InitChannels /\ [][NextChannels]_vars

\* Slots a tree of layers is built on.
NumTreeSlots == 6

\* Slots a chain of layers is built on, past the hops of the walks.
NumChainExtra == 2

\* The identifier unique_name_in hands to slot l's layer: four characters.
SlotId(l) ==
    Digit(l \div 1000) \o Digit((l \div 100) % 10) \o Digit((l \div 10) % 10) \o Digit(l % 10)

\* Whether the last call was a query, which leaves the layers as they were.
Queried ==
    last.op \in {"descendents", "get_layer_above", "get_layer_below",
                 "resolve", "stack_depth", "get_top_level_layer",
                 "is_descendent_of"}

\* A query of the layers as the last initialize or delete left them.
Query(op, l, arg, outcome) == ~Queried /\ Done(op, l, arg, outcome)

\* The next unused slot l is initialized as a fill layer and the stack puts
\* it under layer p, or leaves it at top level for p = 0; no layer has been
\* deleted.
Grow(l, p) ==
    /\ layers[l] = DefaultLayer
    /\ \A x \in DOMAIN layers :
           /\ layers[x].name # ""
           /\ x < l => is_initialized(layers, x)
    /\ LET made == initialize(layers, l, SlotName(l), "MATERIAL_FILL", <<>>,
                              TRUE, SlotId(l), ImageTable[1], -1)
       IN  Done("initialize", l, SlotName(l),
                IF p = 0
                THEN made
                ELSE Outcome(set_parent(made.layers, l, p), FALSE, 0))

\* A live layer is deleted, the first layer to be.
DeleteFirst(l) ==
    /\ is_initialized(layers, l)
    /\ \A x \in DOMAIN layers : layers[x].name # ""
    /\ Delete(l)

Descendents(l) == Query("descendents", l, 0, descendents(layers, l))

GetLayerAbove(l) == Query("get_layer_above", l, 0, get_layer_above(layers, l))

GetLayerBelow(l) == Query("get_layer_below", l, 0, get_layer_below(layers, l))

\* The reference layer l holds to its parent, for i = 0, or to its i-th
\* child.
RefOf(l, i) == IF i = 0 THEN layers[l].parent ELSE layers[l].children[i]

Resolve(l, i) ==
    /\ i <= Len(layers[l].children)
    /\ Query("resolve", l, RefOf(l, i), ref_resolve(layers, RefOf(l, i)))

StackDepth(l) == Query("stack_depth", l, 0, stack_depth(layers, l))

GetTopLevelLayer(l) ==
    Query("get_top_level_layer", l, 0, get_top_level_layer(layers, l))

IsDescendentOf(l, other) ==
    Query("is_descendent_of", l, other, is_descendent_of(layers, l, other))

\* Trees: layers are initialized one after another, each at top level or
\* under an earlier one, one of them is deleted, and the hierarchy is
\* queried.
TreeSlots == 1..NumTreeSlots

TreeParents(l) ==
    IF l = 1 THEN {0} ELSE {0, 1, l - 1, l - 2} \cap (0..(l - 1))

InitTree ==
    /\ layers = [l \in TreeSlots |-> DefaultLayer]
    /\ base_slot = 0
    /\ last = NoCall
    /\ walking = NoWalk

NextTree ==
    \E l \in TreeSlots :
        \/ \E p \in TreeParents(l) : Grow(l, p)
        \/ DeleteFirst(l)
        \/ Descendents(l)
        \/ GetLayerAbove(l)
        \/ GetLayerBelow(l)
        \/ \E i \in 0..NumTreeSlots : Resolve(l, i)

SpecTree == InitTree /\ [][NextTree]_vars

\* Chains: layers are initialized one after another, each under the one
\* before, and the walks up the hierarchy are made from the deepest layer.
ChainSlots == 1..(MaxHops + NumChainExtra)

\* The deepest layer of the chain.
Deepest(l) ==
    /\ is_initialized(layers, l)
    /\ (l + 1) \in ChainSlots => ~is_initialized(layers, l + 1)

InitChain ==
    /\ layers = [l \in ChainSlots |-> DefaultLayer]
    /\ base_slot = 0
    /\ last = NoCall
    /\ walking = NoWalk

NextChain ==
    \E l \in ChainSlots :
        \/ Grow(l, l - 1)
        \/ Deepest(l) /\ StackDepth(l)
        \/ Deepest(l) /\ GetTopLevelLayer(l)
        \/ \E other \in {1, l - 1, l, l + 1} \cap ChainSlots :
               Deepest(l) /\ IsDescendentOf(l, other)

SpecChain == InitChain /\ [][NextChain]_vars

\* Slots a subtree of paint layers is built on and torn down.
NumTeardownSlots == 4

TeardownSlots == 1..NumTeardownSlots

\* The next unused slot l is initialized as a paint layer, with the stack's
\* enabled channels and an image of its own, and the stack puts it under
\* layer p, or leaves it at top level for p = 0; no layer has been deleted.
GrowPaint(l, p) ==
    /\ layers[l] = DefaultLayer
    /\ \A x \in DOMAIN layers :
           /\ layers[x].name # ""
           /\ x < l => is_initialized(layers, x)
    /\ LET made == initialize(layers, l, SlotName(l), "MATERIAL_PAINT",
                              StackChannels, TRUE, SlotId(l), ImageTable[l],
                              -1)
       IN  Done("initialize", l, SlotName(l),
                IF p = 0
                THEN made
                ELSE Outcome(set_parent(made.layers, l, p), FALSE, 0))

InitTeardown ==
    /\ layers = [l \in TeardownSlots |-> DefaultLayer]
    /\ base_slot = 0
    /\ last = NoCall
    /\ walking = NoWalk

\* Teardown: paint layers are initialized one after another, each at top
\* level or under an earlier one, and then deleted, in any order.
NextTeardown ==
    \E l \in TeardownSlots :
        \/ \E p \in 0..(l - 1) : GrowPaint(l, p)
        \/ Delete(l)

SpecTeardown == InitTeardown /\ [][NextTeardown]_vars

\* Slots the parent references are set on at will.
NumWalkSlots == 3

WalkSlots == 1..NumWalkSlots

\* The layers the parent reference of layer l is set to: none, the first
\* two and the next, itself among them.
WalkParents(l) == {0, 1, 2, l + 1} \cap (0..NumWalkSlots)

\* No walk is under way or waiting to be taken: every call is made from the
\* host's event context, one after another.
Idle == walking.status = "none"

ParentSet(l, p) ==
    /\ is_initialized(layers, l)
    /\ p # 0 => is_initialized(layers, p)
    /\ Done("parent.set", l, "", Outcome(parent_set(layers, l, p), FALSE, 0))

GetTopLevelLayerBegin(l) ==
    /\ is_initialized(layers, l)
    /\ walking' = get_top_level_layer_begin(layers, l)
    /\ UNCHANGED <<layers, base_slot, last>>

IsDescendentOfBegin(l, other) ==
    /\ is_initialized(layers, l)
    /\ walking' = is_descendent_of_begin(layers, l, other)
    /\ UNCHANGED <<layers, base_slot, last>>

StackDepthBegin(l) ==
    /\ is_initialized(layers, l)
    /\ walking' = stack_depth_begin(layers, l)
    /\ UNCHANGED <<layers, base_slot, last>>

WalkStep ==
    /\ walking.status = "running"
    /\ walking' = walk_step(layers, walking)
    /\ UNCHANGED <<layers, base_slot, last>>

\* The caller has what the walk returned or raised.
WalkEnd ==
    /\ walking.status \in {"returned", "raised"}
    /\ walking' = NoWalk
    /\ UNCHANGED <<layers, base_slot, last>>

InitWalk ==
    /\ layers = [l \in WalkSlots |-> DefaultLayer]
    /\ base_slot = 0
    /\ last = NoCall
    /\ walking = NoWalk

\* Walks: layers are initialized at top level, their parent references are
\* set to one another, cycles included, the last layer is deleted, and the
\* walks up the hierarchy are made from the first layer, iteration by
\* iteration.
NextWalk ==
    \/ \E l \in WalkSlots : Idle /\ Grow(l, 0)
    \/ \E l \in WalkSlots : \E p \in WalkParents(l) : Idle /\ ParentSet(l, p)
    \/ Idle /\ DeleteFirst(NumWalkSlots)
    \/ Idle /\ GetTopLevelLayerBegin(1)
    \/ \E other \in WalkSlots : Idle /\ IsDescendentOfBegin(1, other)
    \/ Idle /\ StackDepthBegin(1)
    \/ WalkStep
    \/ WalkEnd

SpecWalk == InitWalk /\ [][NextWalk]_vars

\* References: fill layers are initialized, with any identifier the stack
\* can allocate, the parent reference of one is set to another, layers are
\* deleted and the parent references are resolved.
NextRefs ==
    \E l \in LifeSlots :
        \/ \E identifier \in Ids :
               Initialize(l, SlotName(l), "MATERIAL_FILL", <<>>, TRUE, identifier, ImageTable[1], -1)
        \/ \E p \in LifeSlots : ParentSet(l, p)
        \/ Delete(l)
        \/ Resolve(l, 0)

SpecRefs == Init /\ [][NextRefs]_vars

\* ------------------------------------------------------------- properties

Live(l) == is_initialized(layers, l)

NamedCall == last.op \in {"initialize", "rename"} /\ ~last.raised

\* C2: no two initialized layers of the stack have the same name, whatever
\* layers were initialized, renamed and deleted.
C2_NamesUnique ==
    \A x, y \in Slots :
        (x # y /\ Live(x) /\ Live(y)) => layers[x].name # layers[y].name

\* A layer was just given the name another live layer has, and got another.
C2_Witness ==
    /\ NamedCall
    /\ \E x \in Slots \ {last.layer} : Live(x) /\ layers[x].name = last.arg
    /\ layers[last.layer].name # last.arg

\* Whether another layer, initialized or not, is named basename.NN.
SuffixTaken(l, basename, n) ==
    \E x \in Slots \ {l} : layers[x].name = SuffixedName(basename, n)

\* C3: a layer initialized with or renamed to a name B that another
\* initialized layer has is named B.NN, NN the smallest number from 01 on
\* that no layer of the stack has as B.NN; with no such layer it is named B.
\* (The call changes no other layer, so the other layers' names are those
\* the call saw.)
C3_FirstFreeSuffix ==
    NamedCall =>
        LET l == last.layer
            B == last.arg
        IN  IF \E x \in Slots \ {l} : Live(x) /\ layers[x].name = B
            THEN \E n \in 1..NumSlots :
                     /\ layers[l].name = SuffixedName(B, n)
                     /\ ~SuffixTaken(l, B, n)
                     /\ \A m \in 1..(n - 1) : SuffixTaken(l, B, m)
            ELSE layers[l].name = B

\* A third layer named Layer got Layer.02, past a Layer.01 that was taken.
C3_Witness ==
    /\ NamedCall
    /\ last.arg = "Layer"
    /\ layers[last.layer].name = "Layer.02"
    /\ \E x, y \in Slots \ {last.layer} :
           /\ Live(x) /\ layers[x].name = "Layer"
           /\ layers[y].name = "Layer.01"

\* C4: with a layer named Layer.01 in the stack (the second of two layers
\* initialized as Layer) and the first layer deleted, a layer initialized as
\* Layer, in the freed slot or in another, is named exactly Layer: the
\* deleted layer's name collides with nothing.
C4_DeletedNameIsFree ==
    (/\ last.op = "initialize"
     /\ ~last.raised
     /\ \E x \in Slots \ {last.layer} :
            Live(x) /\ layers[x].name = "Layer.01")
        => layers[last.layer].name = "Layer"

\* The third layer is named Layer, the second is still Layer.01, and the
\* deleted first layer's slot is still there, uninitialized.
C4_Witness ==
    /\ last.op = "initialize"
    /\ layers[last.layer].name = "Layer"
    /\ \E x, y \in Slots \ {last.layer} :
           /\ Live(x) /\ layers[x].name = "Layer.01"
           /\ ~Live(y) /\ layers[y].name = ""

IdentifiersUnique ==
    \A x, y \in Slots :
        (x # y /\ Live(x) /\ Live(y)) =>
            layers[x].identifier # layers[y].identifier

\* A layer's identifier is set by an initialize of that layer that did not
\* raise, and from then on only cleared, by a delete.
IdentifierStable ==
    \A l \in Slots :
        layers'[l].identifier # layers[l].identifier =>
            IF layers[l].identifier = ""
            THEN last'.op = "initialize" /\ last'.layer = l /\ ~last'.raised
            ELSE last'.op = "delete" /\ layers'[l].identifier = ""

\* C5: the initialized layers of a stack have pairwise distinct, non-empty
\* identifiers, and a layer keeps its identifier from its initialize to its
\* delete.
C5_IdentifiersUniqueAndStable ==
    [](IdentifiersUnique /\ \A l \in Slots : Live(l) <=> layers[l].identifier \in Ids)
        /\ [][IdentifierStable]_vars

\* Every slot is live, one of them initialized after a delete freed a slot.
C5_Witness ==
    /\ last.op = "initialize"
    /\ ~last.raised
    /\ last.pre.name = ""
    /\ \A l \in Slots : Live(l)

\* C10: a layer with an image channel has an image, and an uninitialized
\* layer has neither, whatever layers were initialized, converted and
\* deleted.
C10_ImageChannelHasImage ==
    \A l \in Slots :
        /\ layers[l].image_channel >= 0 => layers[l].image # NoImage
        /\ ~Live(l) =>
               layers[l].image = NoImage /\ layers[l].image_channel = -1

\* A layer that had a channel of an image another layer still shares was
\* deleted.
C10_Witness ==
    /\ last.op = "delete"
    /\ ~last.raised
    /\ last.pre.identifier # ""
    /\ last.pre.image_channel >= 0
    /\ \E x \in Slots \ {last.layer} :
           layers[x].image = last.pre.image /\ uses_shared_image(layers, x)

\* C1: when delete returns from a live layer, of any type, with or without
\* channels, image, parent and children, the slot's identifier is empty, its
\* image null, its image channel -1, its channels and children empty and its
\* parent unset.
C1_DeleteResetsSlot ==
    (last.op = "delete" /\ ~last.raised /\ last.pre.identifier # "") =>
        LET layer == layers[last.layer]
        IN  /\ layer.identifier = ""
            /\ layer.image = NoImage
            /\ layer.image_channel = -1
            /\ layer.channels = <<>>
            /\ layer.parent = ""
            /\ layer.children = <<>>

\* delete returned from a paint layer that had an image, channels and a
\* child, the child a parent.
C1_Witness ==
    /\ last.op = "delete"
    /\ ~last.raised
    /\ last.pre.identifier # ""
    /\ last.pre.image # NoImage
    /\ last.pre.channels # <<>>
    /\ last.pre.children # <<>>
    /\ \E x \in Slots \ {last.layer} :
           /\ ~Live(x)
           /\ layers[x].name = ""
           /\ layers[x].parent = ""

\* The sockets among a layer's node tree outputs.
OutputSet(layer) ==
    {layer.node_tree.outputs[i] : i \in 1..Len(layer.node_tree.outputs)}

\* add_channel of a name the layer had no channel of returned, and
\* remove_channel of that name after it.
RoundTrip ==
    /\ last.op = "add_channel, remove_channel"
    /\ ~last.raised
    /\ find(last.pre.channels, last.arg) = 0

RoundTripRestores ==
    /\ layers[last.layer].channels = last.pre.channels
    /\ OutputSet(layers[last.layer]) = OutputSet(last.pre)

\* C6 as claimed: add_channel of a name not among the layer's channels, then
\* remove_channel of it, restores the channel list and the set of outputs of
\* the node tree, whatever they were.
C6_Original == RoundTrip => RoundTripRestores

\* C6, amended: it does where the node tree had no output of that name
\* before the add.
C6_RoundTripRestores ==
    (RoundTrip /\ find(last.pre.node_tree.outputs, last.arg) = 0) =>
        RoundTripRestores

\* The round trip was made on a layer with a channel and an output already.
C6_Witness ==
    /\ RoundTrip
    /\ find(last.pre.node_tree.outputs, last.arg) = 0
    /\ last.pre.channels # <<>>
    /\ last.pre.node_tree.outputs # <<>>

NamesDistinct(seq) ==
    \A i, j \in 1..Len(seq) : i # j => seq[i].name # seq[j].name

\* C7: add_channel of a name the layer has a channel of returns that channel
\* and leaves the channel list, the node tree's outputs and
\* active_channel_index as they were; and the names of a layer's channels
\* are pairwise distinct.
C7_AddChannelIdempotent ==
    /\ (last.op = "add_channel" /\ find(last.pre.channels, last.arg) # 0) =>
           /\ ~last.raised
           /\ last.ret = find(last.pre.channels, last.arg)
           /\ layers[last.layer].channels = last.pre.channels
           /\ layers[last.layer].node_tree = last.pre.node_tree
           /\ layers[last.layer].active_channel_index =
                  last.pre.active_channel_index
    /\ \A l \in Slots : NamesDistinct(layers[l].channels)

\* add_channel returned the first of two channels the layer has.
C7_Witness ==
    /\ last.op = "add_channel"
    /\ Len(last.pre.channels) >= 2
    /\ last.ret = 1
    /\ find(last.pre.channels, last.arg) = 1

\* C8 as claimed: active_channel_index is a position of the channel list,
\* and 0 when the list is empty.
C8_ActiveIndexInRange ==
    \A l \in Slots :
        IF layers[l].channels = <<>>
        THEN layers[l].active_channel_index = 0
        ELSE layers[l].active_channel_index \in
                 0..(Len(layers[l].channels) - 1)

OutputsNamed(layer, name) ==
    {i \in 1..Len(layer.node_tree.outputs) :
         layer.node_tree.outputs[i].name = name}

\* C9 as claimed: the node tree of a live layer has exactly one output for
\* each channel of the layer, of the channel's type, and no other output.
C9_Original ==
    \A l \in Slots :
        Live(l) =>
            /\ \A i \in 1..Len(layers[l].channels) :
                   LET ch == layers[l].channels[i]
                   IN  /\ Cardinality(OutputsNamed(layers[l], ch.name)) = 1
                       /\ \A j \in OutputsNamed(layers[l], ch.name) :
                              layers[l].node_tree.outputs[j].type =
                                  socket_type_bl_enum(ch.socket_type)
            /\ \A j \in 1..Len(layers[l].node_tree.outputs) :
                   find(layers[l].channels,
                        layers[l].node_tree.outputs[j].name) # 0

\* C9, amended: the node tree of a live layer, if it has one, has an output
\* for each channel of the layer, and the first output of that name is of
\* the channel's type.
C9_ChannelsHaveOutputs ==
    \A l \in Slots :
        (Live(l) /\ layers[l].node_tree.exists) =>
            \A i \in 1..Len(layers[l].channels) :
                LET ch == layers[l].channels[i]
                    j == find(layers[l].node_tree.outputs, ch.name)
                IN  /\ j # 0
                    /\ layers[l].node_tree.outputs[j].type =
                           socket_type_bl_enum(ch.socket_type)

\* A layer with a channel was given a node tree whose output of that name
\* had another type, and the output is now of the channel's type.
C9_Witness ==
    /\ last.op = "replace_node_tree"
    /\ ~last.raised
    /\ \E i \in 1..Len(layers[last.layer].channels) :
           LET ch == layers[last.layer].channels[i]
           IN  /\ ch.socket_type = "COLOR"
               /\ Cardinality(OutputsNamed(layers[last.layer], ch.name)) = 1
               /\ Len(layers[last.layer].node_tree.outputs) >
                      Len(layers[last.layer].channels)
               /\ layers[last.layer].node_tree.outputs =
                      <<Socket("Color", "RGBA"), Socket("Mask", "VALUE")>>

\* C11: after convert_to(T) of a live layer, T a recognized type, another
\* convert_to(T) returns without raising and leaves the layers as the first
\* call left them, whatever the image pool would hand out; and convert_to(T)
\* of a layer of type T leaves the layer as it was.
C11_ConvertToIdempotent ==
    (last.op = "convert_to" /\ ~last.raised) =>
        /\ \A i \in ImageSlots, image_channel \in -1..2 :
               convert_to(layers, last.layer, last.arg, ImageTable[i],
                          image_channel) = Outcome(layers, FALSE, 0)
        /\ last.pre.layer_type = last.arg => layers[last.layer] = last.pre

\* convert_to was called on a layer of that type already, a paint layer
\* with an image, and returned.
C11_Witness ==
    /\ last.op = "convert_to"
    /\ ~last.raised
    /\ last.arg = "MATERIAL_PAINT"
    /\ last.pre.layer_type = "MATERIAL_PAINT"
    /\ last.pre.image # NoImage
    /\ layers[last.layer] = last.pre

\* C12: convert_to of a paint layer to a fill layer leaves image and
\* image_channel as they were; convert_to to a paint layer binds an image of
\* the pool to a layer that had none and leaves the binding of a layer that
\* had one as it was.
C12_ConvertToKeepsImage ==
    (last.op = "convert_to" /\ ~last.raised) =>
        LET layer == layers[last.layer]
        IN  /\ last.arg = "MATERIAL_FILL" =>
                   /\ layer.image = last.pre.image
                   /\ layer.image_channel = last.pre.image_channel
            /\ (last.arg = "MATERIAL_PAINT" /\ last.pre.image # NoImage) =>
                   /\ layer.image = last.pre.image
                   /\ layer.image_channel = last.pre.image_channel
            /\ (last.arg = "MATERIAL_PAINT" /\ last.pre.image = NoImage) =>
                   layer.image \in Images

\* A fill layer that was a paint layer, with a channel of a shared image,
\* was converted to a paint layer and has that channel still.
C12_Witness ==
    /\ last.op = "convert_to"
    /\ ~last.raised
    /\ last.arg = "MATERIAL_PAINT"
    /\ last.pre.layer_type = "MATERIAL_FILL"
    /\ last.pre.image_channel >= 0
    /\ layers[last.layer].layer_type = "MATERIAL_PAINT"
    /\ layers[last.layer].image = last.pre.image
    /\ layers[last.layer].image_channel = last.pre.image_channel

\* A fill layer without an image was converted to a paint layer and has one.
C12_Allocated ==
    /\ last.op = "convert_to"
    /\ last.arg = "MATERIAL_PAINT"
    /\ last.pre.image = NoImage
    /\ layers[last.layer].image \in Images

\* No layer has been deleted: every reference resolves to a live layer.
NoneDeleted == \A x \in DOMAIN layers : layers[x].name # ""

\* The layers the references to the children of layer l resolve to.
ChildrenOf(l) ==
    [i \in 1..Len(layers[l].children) |-> resolve(layers, layers[l].children[i])]

RECURSIVE Flattened(_)
Flattened(seqs) ==
    IF seqs = <<>> THEN <<>> ELSE Head(seqs) \o Flattened(Tail(seqs))

\* Whether layer a is above layer x in the hierarchy.
IsAbove(a, x) == is_ancestor(layers, a, x, Cardinality(DOMAIN layers))

\* The tree 1 -> [2 (children [3]), 4 (children [5, 6])] of the
\* documentation.
ExampleTree ==
    /\ NoneDeleted
    /\ layers[1].children = <<SlotId(2), SlotId(4)>>
    /\ layers[2].children = <<SlotId(3)>>
    /\ layers[4].children = <<SlotId(5), SlotId(6)>>
    /\ layers[3].children = <<>>
    /\ layers[5].children = <<>>
    /\ layers[6].children = <<>>

ChainShape ==
    \A l \in DOMAIN layers :
        Live(l) =>
            /\ \A x \in 1..(l - 1) : Live(x)
            /\ layers[l].parent = IF l = 1 THEN "" ELSE layers[l - 1].identifier
            /\ layers[l].identifier \notin
                   {layers[x].identifier : x \in 1..(l - 1)}

\* The number of ancestors of the layer the last call was made on.
NumAncestors == last.layer - 1

\* C14: stack_depth of a layer with n ancestors, n from 0 to 100, returns n.
C14_StackDepthCountsAncestors ==
    /\ ChainShape
    /\ (last.op = "stack_depth" /\ NumAncestors <= MaxHops) =>
           ~last.raised /\ last.ret = NumAncestors

\* stack_depth of a layer with 100 ancestors returned 100.
C14_Witness ==
    /\ last.op = "stack_depth"
    /\ ~last.raised
    /\ NumAncestors = MaxHops
    /\ last.ret = MaxHops
    /\ last.pre.parent = layers[MaxHops].identifier

DescendentCall == last.op = "is_descendent_of"

\* C20 as claimed: is_descendent_of of a layer with at most 100 ancestors
\* returns whether other is a proper ancestor of the layer, and raises for no
\* layer get_top_level_layer returns the top-level layer of.
C20_Original ==
    DescendentCall =>
        /\ NumAncestors <= MaxHops =>
               ~last.raised /\ last.ret = (last.arg < last.layer)
        /\ ~get_top_level_layer(layers, last.layer).raised => ~last.raised

\* C20, amended: is_descendent_of of a layer with at most 99 ancestors
\* returns whether other is a proper ancestor of the layer; of a layer with
\* 100 ancestors or more it returns true for other among the nearest 100
\* ancestors and raises for another; get_top_level_layer returns the
\* top-level layer for a layer with at most 100 ancestors and raises for one
\* with more.
C20_DescendentWithinHops ==
    /\ ChainShape
    /\ DescendentCall =>
           IF last.arg < last.layer /\ last.layer - last.arg <= MaxHops
           THEN ~last.raised /\ last.ret = TRUE
           ELSE IF NumAncestors <= MaxHops - 1
           THEN ~last.raised /\ last.ret = FALSE
           ELSE last.raised
    /\ last.op = "get_top_level_layer" =>
           IF NumAncestors <= MaxHops
           THEN ~last.raised /\ last.ret = 1
           ELSE last.raised

\* is_descendent_of of the layer with 99 ancestors returned true for the
\* top-level layer.
C20_Witness ==
    /\ DescendentCall
    /\ NumAncestors = MaxHops - 1
    /\ last.arg = 1
    /\ ~last.raised
    /\ last.ret = TRUE

\* is_descendent_of raised for a layer with 100 ancestors, which
\* get_top_level_layer returns the top-level layer of.
C20_Boundary ==
    /\ DescendentCall
    /\ NumAncestors = MaxHops
    /\ last.raised
    /\ get_top_level_layer(layers, last.layer) = Returned(layers, 1)

\* The layers the non-empty references among the children of the parent of
\* layer l resolve to, in the order of children: the siblings of l, l among
\* them.
SiblingsOf(l) ==
    LET refs == layers[resolve(layers, layers[l].parent)].children
        kept == SelectSeq(refs, LAMBDA r : r # "")
    IN  [i \in 1..Len(kept) |-> resolve(layers, kept[i])]

\* The position of layer l among its siblings.
PositionOf(l) ==
    CHOOSE i \in 1..Len(SiblingsOf(l)) : SiblingsOf(l)[i] = l

\* C16 as claimed: get_layer_below of a live layer with a parent returns the
\* sibling before it, None for the first of the siblings, and
\* get_layer_above the sibling after it, None for the last; both raise for
\* an uninitialized layer.
C16_NeighbourAmongSiblings ==
    (last.op \in {"get_layer_above", "get_layer_below"}) =>
        LET l == last.layer
            siblings == SiblingsOf(l)
            i == PositionOf(l)
        IN  IF ~Live(l)
            THEN last.raised
            ELSE (layers[l].parent # "" /\ NoneDeleted) =>
                     /\ ~last.raised
                     /\ last.op = "get_layer_below" =>
                            last.ret = IF i = 1 THEN 0 ELSE siblings[i - 1]
                     /\ last.op = "get_layer_above" =>
                            last.ret = IF i = Len(siblings)
                                       THEN 0
                                       ELSE siblings[i + 1]

\* get_layer_below raised for the second of two children of a layer.
C16_Raises ==
    /\ last.op = "get_layer_below"
    /\ last.raised
    /\ NoneDeleted
    /\ Live(last.layer)
    /\ layers[last.layer].parent # ""
    /\ Len(SiblingsOf(last.layer)) = 2
    /\ PositionOf(last.layer) = 2

\* C18: resolve of a reference raises iff the reference is empty; for another
\* it returns the layer of the stack that has the reference's identifier,
\* and None, without raising, where no layer of the stack has it.
C18_ResolveOnlyRaisesWhenEmpty ==
    last.op = "resolve" =>
        /\ last.raised <=> last.arg = ""
        /\ ~last.raised =>
               IF \E x \in DOMAIN layers : layers[x].identifier = last.arg
               THEN /\ last.ret \in DOMAIN layers
                    /\ layers[last.ret].identifier = last.arg
               ELSE last.ret = 0

\* resolve of the reference a layer holds to a deleted child returned None.
C18_Witness ==
    /\ last.op = "resolve"
    /\ ~last.raised
    /\ last.ret = 0
    /\ last.arg # ""
    /\ Live(last.layer)
    /\ \E i \in 1..Len(layers[last.layer].children) :
           layers[last.layer].children[i] = last.arg

\* What initialize of layer l with a layer type returns and leaves, with or
\* without channels and whatever identifier the stack would allocate.
InitializeOutcomes(l, layer_type) ==
    {initialize(layers, l, "Layer", layer_type, channels, TRUE, identifier,
                ImageTable[1], -1) :
         channels \in {<<>>, StackChannels}, identifier \in Ids}

\* C17: initialize of a live layer raises, and so does initialize with a
\* layer type that is not recognized; either leaves every layer as it was: a
\* live layer with its identifier, name, type, channels, node tree and
\* image, an uninitialized one without identifier, node tree and image.
C17_InitializeFailsClean ==
    /\ \A l \in ImageSlots, layer_type \in InputLayerTypes :
           (Live(l) \/ layer_type \notin _VALID_LAYER_TYPES) =>
               InitializeOutcomes(l, layer_type) = {Outcome(layers, TRUE, 0)}
    /\ (last.op = "initialize" /\ last.raised) =>
           /\ layers[last.layer] = last.pre
           /\ ~Live(last.layer) =>
                  /\ layers[last.layer].node_tree = NoTree
                  /\ layers[last.layer].image = NoImage

\* initialize with a layer type that is not recognized raised for an
\* uninitialized layer, beside a live one.
C17_Witness ==
    /\ last.op = "initialize"
    /\ last.raised
    /\ last.pre.identifier = ""
    /\ layers[last.layer].identifier = ""
    /\ \E x \in ImageSlots : Live(x)

\* initialize raised for a live layer.
C17_Reinitialized ==
    /\ last.op = "initialize"
    /\ last.raised
    /\ last.pre.identifier # ""
    /\ layers[last.layer] = last.pre

\* Whether a child reference of layer p holds the identifier of layer c.
HasChild(p, c) ==
    \E i \in 1..Len(layers[p].children) :
        layers[p].children[i] = layers[c].identifier

\* C19 as claimed: the parent reference of a live layer resolves to a live
\* layer that has a child reference to it, and every child reference of a
\* live layer resolves to a live layer whose parent reference is to it.
C19_LinksConsistent ==
    \A l \in Slots :
        Live(l) =>
            /\ layers[l].parent # "" =>
                   LET p == resolve(layers, layers[l].parent)
                   IN  p # 0 /\ Live(p) /\ HasChild(p, l)
            /\ \A i \in 1..Len(layers[l].children) :
                   LET c == resolve(layers, layers[l].children[i])
                   IN  /\ c # 0
                       /\ Live(c)
                       /\ layers[c].parent = layers[l].identifier

\* A live layer holds a child reference that resolves to no layer, left by
\* the delete of the child.
C19_Dangling ==
    /\ last.op = "delete"
    /\ last.pre.parent # ""
    /\ \E l \in Slots :
           /\ Live(l)
           /\ layers[l].identifier = last.pre.parent
           /\ \E i \in 1..Len(layers[l].children) :
                  /\ layers[l].children[i] = last.pre.identifier
                  /\ resolve(layers, layers[l].children[i]) = 0

\* The names replace_node_tree with update_channels matches the channels of
\* layer l against when it is given the tree: the tree's output names, and
\* for the base layer the names of the stack's enabled channels as well.
TargetNames(l, tree) ==
    node_output_names([layers EXCEPT ![l].node_tree = tree], l)

\* The channels of the layer are those the names call for: every channel is
\* named by one of them, every one of them the stack has a channel for is
\* the name of a channel, and every channel the stack has a channel for is
\* enabled as the stack's is.
ChannelsMatch(layer, names) ==
    /\ \A i \in 1..Len(layer.channels) : layer.channels[i].name \in names
    /\ \A n \in names :
           in_stack_channels(n) => find(layer.channels, n) # 0
    /\ \A i \in 1..Len(layer.channels) :
           in_stack_channels(layer.channels[i].name) =>
               layer.channels[i].enabled =
                   StackChannels[find(StackChannels,
                                      layer.channels[i].name)].enabled

\* C21: after replace_node_tree with a node tree and update_channels, every
\* channel of the layer is named by an output of the tree as it was given
\* (or, on the base layer, by an enabled channel of the stack), every such
\* name the stack has a channel for is the name of a channel of the layer,
\* and every channel the stack has a channel for is enabled as the stack's
\* channel is. This is so from every state the layer can be in, for every
\* tree and every order the names can be iterated in.
C21_ChannelsFollowTree ==
    \A l \in ChannelSlots, node_tree \in TreeArguments :
        LET tree == IF node_tree.same THEN layers[l].node_tree
                    ELSE node_tree.tree
        IN  (Live(l) /\ tree.exists) =>
                \A order \in Orders(TargetNames(l, tree)) :
                    LET updated == replace_node_tree(layers, l, node_tree,
                                                     TRUE, order)
                    IN  ~updated.raised =>
                            ChannelsMatch(updated.layers[l],
                                          TargetNames(l, tree))

\* replace_node_tree with update_channels has added a channel to the layer,
\* removed another and changed whether a third is enabled.
C21_Witness ==
    /\ last.op = "replace_node_tree"
    /\ last.arg = "update_channels"
    /\ ~last.raised
    /\ layers[last.layer].node_tree.exists
    /\ \E i \in 1..Len(last.pre.channels) :
           find(layers[last.layer].channels, last.pre.channels[i].name) = 0
    /\ \E i \in 1..Len(layers[last.layer].channels) :
           find(last.pre.channels, layers[last.layer].channels[i].name) = 0
    /\ \E i \in 1..Len(layers[last.layer].channels) :
           LET ch == layers[last.layer].channels[i]
               j == find(last.pre.channels, ch.name)
           IN  j # 0 /\ last.pre.channels[j].enabled # ch.enabled

\* The layers below layer l: those that have l among their ancestors.
Below(l) == {x \in DOMAIN layers : IsAbove(l, x)}

\* Whether everything delete releases of layer x is released.
TornDown(L, x) ==
    /\ ~is_initialized(L, x)
    /\ L[x].parent = ""
    /\ L[x].image = NoImage
    /\ L[x].children = <<>>
    /\ L[x].channels = <<>>
    /\ ~L[x].node_tree.exists
    /\ L[x].name = ""

\* The step is delete of a live layer, which has the layers below it that
\* the predicate is about.
DeletesLive == last'.op = "delete" /\ Live(last'.layer)

\* The statements of the delete the step makes.
DeleteTrace == delete_steps(layers, last'.layer)

C22_Step ==
    DeletesLive =>
        LET l == last'.layer
            steps == DeleteTrace.steps
        IN  /\ layers' = after(layers, steps)
            /\ last'.raised = DeleteTrace.raised
            /\ ~last'.raised =>
                   /\ \A x \in Below(l) : TornDown(layers', x)
                   /\ layers'[l].children = <<>>
                   /\ \A k \in 1..Len(steps), x \in Below(l) :
                          ~TornDown(steps[k].layers, x) =>
                              /\ steps[k].layers[l].channels = layers[l].channels
                              /\ steps[k].layers[l].node_tree = layers[l].node_tree

\* C22: when delete of a live layer returns, every layer below it is
\* uninitialized, with all that delete releases released, and the layer has
\* no children; and as long as the delete of a layer below it has not
\* completed, the layer's own channels and node tree are as they were before
\* the call.
C22_SubtreeTornDownFirst == [][C22_Step]_vars

\* delete of a layer with a child and a grandchild, all with channels and a
\* node tree, has returned.
C22_Witness ==
    /\ last.op = "delete"
    /\ ~last.raised
    /\ last.pre.identifier # ""
    /\ last.pre.channels # <<>>
    /\ last.pre.node_tree.exists
    /\ \E c, g \in DOMAIN layers :
           /\ last.pre.children = <<SlotId(c)>>
           /\ c < g
           /\ \A x \in {last.layer, c, g} : TornDown(layers, x)
           /\ \A x \in DOMAIN layers \ {last.layer, c, g} : Live(x)
           /\ \A x \in DOMAIN layers : IsAbove(c, x) => x = g

\* Whether, with the layers as L, layer l is seen as deleted while a layer
\* that was below it is initialized: its identifier is empty, and no lookup
\* of the identifier it had finds it.
DeletedAboveLive(L, l) ==
    /\ L[l].identifier = ""
    /\ get_layer_by_id(L, layers[l].identifier) = 0
    /\ \E x \in Below(l) : is_initialized(L, x)

C23_Step ==
    (DeletesLive /\ layers[last'.layer].children # <<>>) =>
        /\ layers' = after(layers, DeleteTrace.steps)
        /\ \A k \in 1..Len(DeleteTrace.steps) :
               ~DeletedAboveLive(DeleteTrace.steps[k].layers, last'.layer)

\* C23: while a layer with children is deleted, after no statement of the
\* delete is the layer's identifier empty, and the layer not found by its
\* former identifier, with a layer below it still initialized.
C23_NoLiveLayerBelowDeleted == [][C23_Step]_vars

\* A walk is under way or has ended, and the caller has not yet taken what
\* it returned or raised.
Walking == walking.status # "none"

Capped == walking.op \in {"get_top_level_layer", "is_descendent_of"}

\* What the query returns or raises when it is taken as a whole.
WholeWalk ==
    CASE walking.op = "get_top_level_layer" ->
             get_top_level_layer(layers, walking.layer)
      [] walking.op = "is_descendent_of" ->
             is_descendent_of(layers, walking.layer, walking.other)
      [] walking.op = "stack_depth" -> stack_depth(layers, walking.layer)

\* The walk has ended as the query taken as a whole ends.
EndsAsWhole ==
    /\ WholeWalk.raised = (walking.status = "raised")
    /\ walking.status = "returned" => WholeWalk.ret = walking.ret

\* The parent references lead from layer 1 back to a layer already passed:
\* no layer without a parent, and no reference that resolves to no layer, is
\* reached from it.
OnCycle ==
    LET path == walk(layers, 1, Cardinality(DOMAIN layers))
    IN  at_top(layers, path) = {}

WalkBounded ==
    Walking =>
        /\ Capped => walking.hops <= MaxHops
        /\ walking.op = "stack_depth" =>
               walking.hops <= 2 * (RecursionLimit - 1)
        /\ walking.status = "running" => ENABLED WalkStep
        /\ walking.status # "running" => EndsAsWhole
        /\ (Capped /\ OnCycle /\ walking.status # "running") =>
               \/ walking.status = "raised" /\ walking.hops = MaxHops
               \/ /\ walking.op = "is_descendent_of"
                  /\ walking.status = "returned"
                  /\ walking.ret = TRUE

WalkAdvances ==
    (walking.status = "running" /\ walking'.status = "running") =>
        walking'.hops > walking.hops

C24_PastTheCap ==
    /\ walking.op = "stack_depth"
    /\ walking.status = "running"
    /\ walking.hops > MaxHops
    /\ OnCycle

\* The parent reference of layer l is set, to a layer that has been deleted
\* since: it resolves to no layer.
Dangling(L, l) ==
    /\ L[l].parent # ""
    /\ ~ref_resolve(L, L[l].parent).raised
    /\ ref_resolve(L, L[l].parent).ret = 0

\* Whatever is initialized or deleted, a reference that resolves to no
\* layer and is not set again goes on resolving to no layer.
C25_Step ==
    \A l \in LifeSlots :
        (/\ Dangling(layers, l)
         /\ last'.op \in {"initialize", "delete"}
         /\ layers'[l].parent = layers[l].parent) =>
            Dangling(layers', l)

\* C25: a reference set to a layer never resolves to another layer: once
\* the layer is deleted, resolve of the reference returns None whatever
\* layers are initialized and deleted afterwards.
C25_StaleRefStaysNull == [][C25_Step]_vars

====
